---- MODULE Spec2Model ----
(***************************************************************************)
(* Model of the [[7,1,3]] QEC protocol scripts: the squin kernels (gate    *)
(* lists), their execution on a stabilizer state (one shot of the          *)
(* sampler, measurement outcomes chosen nondeterministically where the     *)
(* state leaves them open), the syndrome lookup decoder and the codeword   *)
(* classification done on the sampled bits.                                *)
(***************************************************************************)
EXTENDS Integers, Sequences, FiniteSets, TLC

VARIABLES kernel,   \* name of the kernel being sampled
          pc,       \* index of the next operation of the kernel
          destab,   \* destabilizer rows of the stabilizer state, one per qubit
          stab,     \* stabilizer rows of the stabilizer state, one per qubit
          rec,      \* measurement record of the shot, in program order
          verdict,  \* codeword classification of the shot's data bits
          decoded,  \* decode_syndrome result for the shot's first six bits
          calls,    \* log of decode_syndrome calls: <<[syn, res], ...>>
          results,  \* batch of data bit strings handed to the fidelity count
          valid_count, \* valid codewords counted so far in the batch
          num_rounds,  \* configured number of QEC rounds of a multi-round kernel
          noise_level, \* configured noise probability, in thousandths
          faults,      \* depolarize calls of the shot that applied X, Y or Z
          samples,     \* batch of measurement rows the sampler returned
          selected_samples, \* what post_select_on_syndromes returned
          fidelity,    \* log of the analyses: what each returned or raised
          physical_errors, \* sweep handed to plot_error_scaling: the p values
          logical_errors,  \* sweep handed to plot_error_scaling: the L values
          fit,             \* what plot_error_scaling printed, computed or raised
          error            \* the Pauli error put on the data before a correction

roundVars == <<num_rounds, noise_level, faults>>

batchVars == <<samples, selected_samples, fidelity>>

scalingVars == <<physical_errors, logical_errors, fit>>

correctionVars == <<error>>

vars == <<kernel, pc, destab, stab, rec, verdict, decoded, calls, results, valid_count,
          roundVars, batchVars, scalingVars, correctionVars>>

\* number of decode_syndrome calls logged in one behaviour
MaxCalls == 2

\* largest configured number of rounds of a multi-round shot
MaxRounds == 2

\* largest number of depolarize calls of one shot that apply X, Y or Z
MaxFaults == 0

\* largest number of shots in a sampled batch
MaxShots == 2

\* largest number of points of a sweep handed to plot_error_scaling
MaxPoints == 3

\* the smallest physical error rate of a sweep is 2^-MaxExp
MaxExp == 2

----------------------------------------------------------------------------
(* Bits and Pauli rows *)

Xor(a, b) == (a + b) % 2

SymDiff(S, T) == (S \ T) \cup (T \ S)

B(c) == IF c THEN 1 ELSE 0

\* a function as the explicit table of its values
Table(f) == f @@ <<>>

\* all bit strings of length n, as sequences
BitStrings(n) == [1..n -> {0, 1}]

\* a Pauli row: X on the qubits of x, Z on the qubits of z (both: Y), sign (-1)^r
Row(x, z, r) == [x |-> x, z |-> z, r |-> r]

\* Hadamard on qubit a: exchanges X and Z on a, Y picks up a sign
HRow(row, a) ==
    Row((row.x \ {a}) \cup (IF a \in row.z THEN {a} ELSE {}),
        (row.z \ {a}) \cup (IF a \in row.x THEN {a} ELSE {}),
        Xor(row.r, B(a \in row.x /\ a \in row.z)))

\* CNOT control a, target b: X copies a -> b, Z copies b -> a
CXRow(row, a, b) ==
    Row(IF a \in row.x THEN SymDiff(row.x, {b}) ELSE row.x,
        IF b \in row.z THEN SymDiff(row.z, {a}) ELSE row.z,
        Xor(row.r, B(a \in row.x /\ b \in row.z
                     /\ ((b \in row.x) <=> (a \in row.z)))))

\* Pauli gates only change signs
XRow(row, a) == Row(row.x, row.z, Xor(row.r, B(a \in row.z)))
ZRow(row, a) == Row(row.x, row.z, Xor(row.r, B(a \in row.x)))
YRow(row, a) == Row(row.x, row.z, Xor(row.r, Xor(B(a \in row.x), B(a \in row.z))))

\* exponent of i picked up when row i is multiplied onto row h
GSum(i, h) ==
    LET Yi == i.x \cap i.z   Xi == i.x \ i.z   Zi == i.z \ i.x
        Yh == h.x \cap h.z   Xh == h.x \ h.z   Zh == h.z \ h.x
    IN  Cardinality(Yi \cap Zh) - Cardinality(Yi \cap Xh)
        + Cardinality(Xi \cap Yh) - Cardinality(Xi \cap Zh)
        + Cardinality(Zi \cap Xh) - Cardinality(Zi \cap Yh)

\* product of rows h and i with its sign
RowMul(h, i) ==
    Row(SymDiff(h.x, i.x), SymDiff(h.z, i.z),
        (((2 * h.r + 2 * i.r + GSum(i, h)) + 64) % 4) \div 2)

RECURSIVE ProdRows(_, _, _)
ProdRows(rows, idxs, acc) ==
    IF idxs = {} THEN acc
    ELSE LET i == CHOOSE j \in idxs : \A k \in idxs : j <= k
         IN  ProdRows(rows, idxs \ {i}, RowMul(acc, rows[i]))

----------------------------------------------------------------------------
(* Stabilizer state of one shot: st = [destab, stab, rec] *)

State(d, s, m) == [destab |-> d, stab |-> s, rec |-> m]

EmptyState == State(<<>>, <<>>, <<>>)

\* squin.qalloc(n): n fresh qubits in |0>, numbered after the existing ones
ApplyQalloc(st, n) ==
    LET base == Len(st.stab)
    IN  State(st.destab \o [i \in 1..n |-> Row({base + i - 1}, {}, 0)],
              st.stab \o [i \in 1..n |-> Row({}, {base + i - 1}, 0)],
              st.rec)

\* a gate acts on every row of the state
ApplyH(st, a) ==
    State([i \in 1..Len(st.destab) |-> HRow(st.destab[i], a)],
          [i \in 1..Len(st.stab) |-> HRow(st.stab[i], a)],
          st.rec)

ApplyCX(st, a, b) ==
    State([i \in 1..Len(st.destab) |-> CXRow(st.destab[i], a, b)],
          [i \in 1..Len(st.stab) |-> CXRow(st.stab[i], a, b)],
          st.rec)

ApplyX(st, a) ==
    State([i \in 1..Len(st.destab) |-> XRow(st.destab[i], a)],
          [i \in 1..Len(st.stab) |-> XRow(st.stab[i], a)],
          st.rec)

ApplyZ(st, a) ==
    State([i \in 1..Len(st.destab) |-> ZRow(st.destab[i], a)],
          [i \in 1..Len(st.stab) |-> ZRow(st.stab[i], a)],
          st.rec)

ApplyY(st, a) ==
    State([i \in 1..Len(st.destab) |-> YRow(st.destab[i], a)],
          [i \in 1..Len(st.stab) |-> YRow(st.stab[i], a)],
          st.rec)

\* rows of the stabilizer that anticommute with Z on qubit a
Anti(st, a) == {i \in 1..Len(st.stab) : a \in st.stab[i].x}

\* squin.measure(a) when the outcome is open: outcome m, state collapses
MeasureRandom(st, a, m) ==
    LET p == CHOOSE j \in Anti(st, a) : \A k \in Anti(st, a) : j <= k
        sp == st.stab[p]
        newS == [i \in 1..Len(st.stab) |->
                   IF i = p THEN Row({}, {a}, m)
                   ELSE IF a \in st.stab[i].x THEN RowMul(st.stab[i], sp)
                   ELSE st.stab[i]]
        newD == [i \in 1..Len(st.destab) |->
                   IF i = p THEN sp
                   ELSE IF a \in st.destab[i].x THEN RowMul(st.destab[i], sp)
                   ELSE st.destab[i]]
    IN  State(newD, newS, Append(st.rec, m))

\* squin.measure(a) when the state fixes the outcome
MeasureFixed(st, a) ==
    LET idxs == {i \in 1..Len(st.destab) : a \in st.destab[i].x}
        prod == ProdRows(st.stab, idxs, Row({}, {}, 0))
    IN  State(st.destab, st.stab, Append(st.rec, prod.r))

\* the states one measurement of qubit a can leave
ApplyMeasure(st, a) ==
    IF Anti(st, a) # {}
    THEN {MeasureRandom(st, a, m) : m \in {0, 1}}
    ELSE {MeasureFixed(st, a)}

----------------------------------------------------------------------------
(* Kernels as operation lists *)

Op(name, a, b) == [op |-> name, a |-> a, b |-> b]

Qalloc(n) == Op("qalloc", n, 0)
H(a)      == Op("h", a, 0)
CX(a, b)  == Op("cx", a, b)
X(a)      == Op("x", a, 0)
Z(a)      == Op("z", a, 0)
Y(a)      == Op("y", a, 0)
M(a)      == Op("measure", a, 0)
Depolarize(p, a) == Op("depolarize", a, p)

\* for i in range(n): squin.measure(q[base + i])
MeasureRange(base, n) == [i \in 1..n |-> M(base + i - 1)]

\* squin.depolarize(p, a): X, Y or Z on a, each with probability p/3, else
\* nothing; with p = 0 nothing
ApplyDepolarize(st, p, a) ==
    IF p > 0 THEN {st, ApplyX(st, a), ApplyY(st, a), ApplyZ(st, a)} ELSE {st}

\* the states one operation can leave
Apply(st, o) ==
    CASE o.op = "qalloc"  -> {ApplyQalloc(st, o.a)}
      [] o.op = "h"       -> {ApplyH(st, o.a)}
      [] o.op = "cx"      -> {ApplyCX(st, o.a, o.b)}
      [] o.op = "x"       -> {ApplyX(st, o.a)}
      [] o.op = "z"       -> {ApplyZ(st, o.a)}
      [] o.op = "y"       -> {ApplyY(st, o.a)}
      [] o.op = "measure" -> ApplyMeasure(st, o.a)
      [] o.op = "depolarize" -> ApplyDepolarize(st, o.b, o.a)

\* every state a kernel can end in, from the states in sts at operation i
RECURSIVE RunAll(_, _, _)
RunAll(ops, i, sts) ==
    IF i > Len(ops) THEN sts
    ELSE LET next == UNION {Apply(t, ops[i]) : t \in sts}
         IN  IF next = {} THEN {} ELSE RunAll(ops, i + 1, next)

\* the measurement records the sampler can return for a kernel
Readouts(ops) == {t.rec : t \in RunAll(ops, 1, {EmptyState})}

----------------------------------------------------------------------------
(* Encoding kernels *)

\* segment 2.1: standard encoding followed by readout of the 7 data qubits
steane_logical_zero ==
    <<Qalloc(7), H(0), H(1), H(2),
      CX(0, 3), CX(1, 3),
      CX(0, 4), CX(2, 4),
      CX(1, 5), CX(2, 5),
      CX(0, 6), CX(1, 6), CX(2, 6)>> \o MeasureRange(0, 7)

\* segments 2.2, 2.3, 5.1: the same encoding, returning the data qubits
prepare_steane_logical_zero ==
    <<Qalloc(7), H(0), H(1), H(2),
      CX(0, 3), CX(1, 3),
      CX(0, 4), CX(2, 4),
      CX(1, 5), CX(2, 5),
      CX(0, 6), CX(1, 6), CX(2, 6)>>

optimized_steane_encoding_swapped ==
    <<Qalloc(7), H(0), H(1), H(2),
      CX(0, 3), CX(1, 5), CX(2, 4),
      CX(1, 4), CX(0, 3), CX(2, 5),
      CX(0, 6), CX(1, 6), CX(2, 6)>>

\* segment 4.1: the encoding with its CNOTs regrouped in three layers
optimized_steane_encoding ==
    <<Qalloc(7), H(0), H(1), H(2),
      CX(0, 3), CX(1, 5), CX(2, 4),
      CX(0, 4), CX(1, 3), CX(2, 5),
      CX(0, 6), CX(1, 6), CX(2, 6)>>

optimized_steane_encoding_with_measure ==
    optimized_steane_encoding \o MeasureRange(0, 7)

\* segment 4.1: the encoding with three flag qubits (7, 8, 9) interleaved; the
\* flags are measured first, then the data
flagged_steane_encoding_with_measure ==
    <<Qalloc(7), Qalloc(3), H(0), H(1), H(2),
      H(7), CX(7, 0), CX(7, 1), H(7),
      CX(0, 3), CX(1, 5), CX(2, 4),
      H(8), CX(8, 3), CX(8, 4), H(8),
      CX(0, 4), CX(1, 3), CX(2, 5),
      CX(0, 6), CX(1, 6), CX(2, 6),
      H(9), CX(9, 6), CX(9, 0), H(9)>>
    \o MeasureRange(7, 3) \o MeasureRange(0, 7)

----------------------------------------------------------------------------
(* Syndrome extraction kernels *)

\* segment 2.2: one ancilla per X-stabilizer, allocated as qubit anc
measure_x_syndrome_s1(anc) ==
    <<Qalloc(1), H(anc), CX(anc, 0), CX(anc, 1), CX(anc, 2), CX(anc, 3), H(anc), M(anc)>>

measure_x_syndrome_s2(anc) ==
    <<Qalloc(1), H(anc), CX(anc, 0), CX(anc, 1), CX(anc, 4), CX(anc, 5), H(anc), M(anc)>>

measure_x_syndrome_s3(anc) ==
    <<Qalloc(1), H(anc), CX(anc, 0), CX(anc, 2), CX(anc, 4), CX(anc, 6), H(anc), M(anc)>>

\* segment 2.2: one ancilla per Z-stabilizer
measure_z_syndrome_s4(anc) ==
    <<Qalloc(1), CX(0, anc), CX(1, anc), CX(2, anc), CX(3, anc), M(anc)>>

measure_z_syndrome_s5(anc) ==
    <<Qalloc(1), CX(0, anc), CX(1, anc), CX(4, anc), CX(5, anc), M(anc)>>

measure_z_syndrome_s6(anc) ==
    <<Qalloc(1), CX(0, anc), CX(2, anc), CX(4, anc), CX(6, anc), M(anc)>>

\* segment 2.2: encoding, six stabilizer measurements, data readout
full_syndrome_extraction ==
    prepare_steane_logical_zero
    \o measure_x_syndrome_s1(7) \o measure_x_syndrome_s2(8) \o measure_x_syndrome_s3(9)
    \o measure_z_syndrome_s4(10) \o measure_z_syndrome_s5(11) \o measure_z_syndrome_s6(12)
    \o MeasureRange(0, 7)

\* segment 5.1: six ancillas anc..anc+5 allocated together, measured by the caller
measure_all_syndromes(anc) ==
    <<Qalloc(6),
      H(anc), CX(anc, 0), CX(anc, 1), CX(anc, 2), CX(anc, 3), H(anc),
      H(anc + 1), CX(anc + 1, 0), CX(anc + 1, 1), CX(anc + 1, 4), CX(anc + 1, 5), H(anc + 1),
      H(anc + 2), CX(anc + 2, 0), CX(anc + 2, 2), CX(anc + 2, 4), CX(anc + 2, 6), H(anc + 2),
      CX(0, anc + 3), CX(1, anc + 3), CX(2, anc + 3), CX(3, anc + 3),
      CX(0, anc + 4), CX(1, anc + 4), CX(4, anc + 4), CX(5, anc + 4),
      CX(0, anc + 5), CX(2, anc + 5), CX(4, anc + 5), CX(6, anc + 5)>>

\* segment 5.1: X on qubit 2 after encoding, then syndromes, then data
qec_cycle_with_correction_single_x_error ==
    prepare_steane_logical_zero \o <<X(2)>> \o measure_all_syndromes(7)
    \o MeasureRange(7, 6) \o MeasureRange(0, 7)

\* segment 5.1: Z on qubit 3 after encoding, then syndromes, then data
qec_cycle_with_correction_single_z_error ==
    prepare_steane_logical_zero \o <<Z(3)>> \o measure_all_syndromes(7)
    \o MeasureRange(7, 6) \o MeasureRange(0, 7)

----------------------------------------------------------------------------
(* Multi-round kernels *)

\* the round with the Z-stabilizers measured before the X-stabilizers
single_qec_round_z_first(anc, noise) ==
    (IF noise > 0 THEN [i \in 1..7 |-> Depolarize(noise, i - 1)] ELSE <<>>)
    \o <<Qalloc(1), CX(0, anc), CX(1, anc), CX(2, anc), CX(3, anc), M(anc)>>
    \o <<Qalloc(1), CX(0, anc + 1), CX(1, anc + 1), CX(4, anc + 1), CX(5, anc + 1),
         M(anc + 1)>>
    \o <<Qalloc(1), CX(0, anc + 2), CX(2, anc + 2), CX(4, anc + 2), CX(6, anc + 2),
         M(anc + 2)>>
    \o <<Qalloc(1), H(anc + 3), CX(anc + 3, 0), CX(anc + 3, 1), CX(anc + 3, 2),
         CX(anc + 3, 3), H(anc + 3), M(anc + 3)>>
    \o <<Qalloc(1), H(anc + 4), CX(anc + 4, 0), CX(anc + 4, 1), CX(anc + 4, 4),
         CX(anc + 4, 5), H(anc + 4), M(anc + 4)>>
    \o <<Qalloc(1), H(anc + 5), CX(anc + 5, 0), CX(anc + 5, 2), CX(anc + 5, 4),
         CX(anc + 5, 6), H(anc + 5), M(anc + 5)>>

\* the round with S6 measured on the ancilla of S5, its own ancilla left idle
single_qec_round_shared_ancilla(anc, noise) ==
    (IF noise > 0 THEN [i \in 1..7 |-> Depolarize(noise, i - 1)] ELSE <<>>)
    \o <<Qalloc(1), H(anc), CX(anc, 0), CX(anc, 1), CX(anc, 2), CX(anc, 3), H(anc), M(anc)>>
    \o <<Qalloc(1), H(anc + 1), CX(anc + 1, 0), CX(anc + 1, 1), CX(anc + 1, 4),
         CX(anc + 1, 5), H(anc + 1), M(anc + 1)>>
    \o <<Qalloc(1), H(anc + 2), CX(anc + 2, 0), CX(anc + 2, 2), CX(anc + 2, 4),
         CX(anc + 2, 6), H(anc + 2), M(anc + 2)>>
    \o <<Qalloc(1), CX(0, anc + 3), CX(1, anc + 3), CX(2, anc + 3), CX(3, anc + 3),
         M(anc + 3)>>
    \o <<Qalloc(1), CX(0, anc + 4), CX(1, anc + 4), CX(4, anc + 4), CX(5, anc + 4),
         M(anc + 4)>>
    \o <<Qalloc(1), CX(0, anc + 4), CX(2, anc + 4), CX(4, anc + 4), CX(6, anc + 4),
         M(anc + 4)>>

\* segment 2.3: noise on the data when noise_level > 0, then the six stabilizers,
\* each on a fresh ancilla measured at once; anc is the first ancilla's number
single_qec_round_with_noise(anc, noise) ==
    (IF noise > 0 THEN [i \in 1..7 |-> Depolarize(noise, i - 1)] ELSE <<>>)
    \o <<Qalloc(1), H(anc), CX(anc, 0), CX(anc, 1), CX(anc, 2), CX(anc, 3), H(anc), M(anc)>>
    \o <<Qalloc(1), H(anc + 1), CX(anc + 1, 0), CX(anc + 1, 1), CX(anc + 1, 4),
         CX(anc + 1, 5), H(anc + 1), M(anc + 1)>>
    \o <<Qalloc(1), H(anc + 2), CX(anc + 2, 0), CX(anc + 2, 2), CX(anc + 2, 4),
         CX(anc + 2, 6), H(anc + 2), M(anc + 2)>>
    \o <<Qalloc(1), CX(0, anc + 3), CX(1, anc + 3), CX(2, anc + 3), CX(3, anc + 3),
         M(anc + 3)>>
    \o <<Qalloc(1), CX(0, anc + 4), CX(1, anc + 4), CX(4, anc + 4), CX(5, anc + 4),
         M(anc + 4)>>
    \o <<Qalloc(1), CX(0, anc + 5), CX(2, anc + 5), CX(4, anc + 5), CX(6, anc + 5),
         M(anc + 5)>>

\* for _ in range(n): single_qec_round_with_noise(data, noise), rounds r .. n-1
RECURSIVE RoundsFrom(_, _, _)
RoundsFrom(r, n, noise) ==
    IF r >= n THEN <<>>
    ELSE single_qec_round_with_noise(7 + 6 * r, noise) \o RoundsFrom(r + 1, n, noise)

\* the run with a correction fed forward to data qubit 0 before readout
multi_round_qec_feedforward(n, noise) ==
    prepare_steane_logical_zero \o RoundsFrom(0, n, noise) \o <<X(0)>> \o MeasureRange(0, 7)

\* the run with the data read out before its rounds
multi_round_qec_early_readout(n, noise) ==
    prepare_steane_logical_zero \o MeasureRange(0, 7) \o RoundsFrom(0, n, noise)

\* segment 2.3: encoding, the rounds, readout of the 7 data qubits
multi_round_qec(n, noise) ==
    prepare_steane_logical_zero \o RoundsFrom(0, n, noise) \o MeasureRange(0, 7)

\* segment 5.1: one round: storage noise, six ancillas allocated together,
\* ancilla noise at five times the storage probability, ancilla measurements
NoisyRound(anc, p_storage) ==
    [i \in 1..7 |-> Depolarize(p_storage, i - 1)]
    \o measure_all_syndromes(anc)
    \o [i \in 1..6 |-> Depolarize(p_storage * 5, anc + i - 1)]
    \o MeasureRange(anc, 6)

RECURSIVE NoisyRoundsFrom(_, _, _)
NoisyRoundsFrom(r, n, p_storage) ==
    IF r >= n THEN <<>>
    ELSE NoisyRound(7 + 6 * r, p_storage) \o NoisyRoundsFrom(r + 1, n, p_storage)

multi_round_qec_noisy(n, p_storage) ==
    prepare_steane_logical_zero \o NoisyRoundsFrom(0, n, p_storage) \o MeasureRange(0, 7)

----------------------------------------------------------------------------
(* Stabilizer generators, codeword sets, syndrome table *)

\* supports of S1, S2, S3 (X-type) and S4, S5, S6 (Z-type)
x_generators == <<{0, 1, 2, 3}, {0, 1, 4, 5}, {0, 2, 4, 6}>>

z_generators_typo == <<{0, 1, 2, 3}, {0, 1, 4, 5}, {0, 2, 4, 5}>>

z_generators == <<{0, 1, 2, 3}, {0, 1, 4, 5}, {0, 2, 4, 6}>>

\* segment 2.1 main: codewords expected of logical |0>, qubit 0 first
steane_zero_codewords ==
    {<<0,0,0,0,0,0,0>>, <<1,0,1,0,1,0,1>>, <<0,1,1,0,0,1,1>>, <<1,1,0,0,1,1,0>>,
     <<0,0,0,1,1,1,1>>, <<1,0,1,1,0,1,0>>, <<0,1,1,1,1,0,0>>, <<1,1,0,1,0,0,1>>}

valid_codewords_short ==
    {<<0,0,0,0,0,0,0>>, <<0,0,0,1,1,1,1>>, <<0,1,1,0,0,1,1>>, <<0,1,1,1,1,0,0>>,
     <<1,0,1,0,1,0,1>>, <<1,0,1,1,0,1,0>>, <<1,1,0,0,1,1,0>>}

\* segments 4.1, 4.2, 5.1: the same set, written in sorted order
valid_codewords ==
    {<<0,0,0,0,0,0,0>>, <<0,0,0,1,1,1,1>>, <<0,1,1,0,0,1,1>>, <<0,1,1,1,1,0,0>>,
     <<1,0,1,0,1,0,1>>, <<1,0,1,1,0,1,0>>, <<1,1,0,0,1,1,0>>, <<1,1,0,1,0,0,1>>}

\* decoder results: (None, None), (kind, qubit), ('Unknown', -1);
\* the qubit is a sequence of length at most one, None being the empty one
NoError      == <<"None", <<>>>>
Err(kind, q) == <<kind, <<q>>>>
Unknown      == <<"Unknown", <<-1>>>>

Entry(key, value) == [key |-> key, value |-> value]

\* the dict literal, entry by entry in source order
STEANE_SYNDROME_TABLE ==
    <<Entry(<<0,0,0,0,0,0>>, NoError),
      Entry(<<0,0,0,1,1,1>>, Err("X", 0)),
      Entry(<<0,0,0,1,1,0>>, Err("X", 1)),
      Entry(<<0,0,0,1,0,1>>, Err("X", 2)),
      Entry(<<0,0,0,1,0,0>>, Err("X", 3)),
      Entry(<<0,0,0,0,1,1>>, Err("X", 4)),
      Entry(<<0,0,0,0,1,0>>, Err("X", 5)),
      Entry(<<0,0,0,0,0,1>>, Err("X", 6)),
      Entry(<<1,1,1,0,0,0>>, Err("Z", 0)),
      Entry(<<1,1,0,0,0,0>>, Err("Z", 1)),
      Entry(<<1,0,1,0,0,0>>, Err("Z", 2)),
      Entry(<<1,0,0,0,0,0>>, Err("Z", 3)),
      Entry(<<0,1,1,0,0,0>>, Err("Z", 4)),
      Entry(<<0,1,0,0,0,0>>, Err("Z", 5)),
      Entry(<<0,0,1,0,0,0>>, Err("Z", 6)),
      Entry(<<1,1,1,1,1,1>>, Err("Y", 0)),
      Entry(<<1,1,0,1,1,0>>, Err("Y", 1)),
      Entry(<<1,0,1,1,0,1>>, Err("Y", 2)),
      Entry(<<1,0,0,1,0,0>>, Err("Y", 3)),
      Entry(<<0,1,1,0,1,1>>, Err("Y", 4)),
      Entry(<<0,1,0,0,1,0>>, Err("Y", 5)),
      Entry(<<0,0,1,0,0,1>>, Err("Y", 6))>>

\* dict semantics: a key is present if some entry has it, the last entry wins
DictHas(d, k) == \E i \in 1..Len(d) : d[i].key = k

DictGet(d, k) ==
    LET i == CHOOSE j \in 1..Len(d) :
                 d[j].key = k /\ \A l \in 1..Len(d) : d[l].key = k => l <= j
    IN  d[i].value

\* lookup with the X-generator and Z-generator halves of the key exchanged
decode_syndrome_swapped(syndrome) ==
    LET t == <<syndrome[4], syndrome[5], syndrome[6],
               syndrome[1], syndrome[2], syndrome[3]>>
    IN  IF DictHas(STEANE_SYNDROME_TABLE, t)
        THEN DictGet(STEANE_SYNDROME_TABLE, t)
        ELSE Unknown

\* the fallback returning a bare None, as its comment words it
decode_syndrome_returns_none(syndrome) ==
    IF DictHas(STEANE_SYNDROME_TABLE, syndrome)
    THEN DictGet(STEANE_SYNDROME_TABLE, syndrome)
    ELSE <<>>

\* a lookup that leaves the Y entries out
decode_syndrome_no_y(syndrome) ==
    IF DictHas(STEANE_SYNDROME_TABLE, syndrome)
       /\ DictGet(STEANE_SYNDROME_TABLE, syndrome)[1] # "Y"
    THEN DictGet(STEANE_SYNDROME_TABLE, syndrome)
    ELSE Unknown

decode_syndrome(syndrome) ==
    IF DictHas(STEANE_SYNDROME_TABLE, syndrome)
    THEN DictGet(STEANE_SYNDROME_TABLE, syndrome)
    ELSE Unknown

\* the final elif taken as an else: anything but X, Z and None gets a Y, and
\* qubit -1 is the last one
apply_correction_unguarded(error_type, qubit_idx) ==
    IF error_type = "X" THEN <<X(qubit_idx[1])>>
    ELSE IF error_type = "Z" THEN <<Z(qubit_idx[1])>>
    ELSE IF error_type = "None" THEN <<>>
    ELSE <<Y((qubit_idx[1] + 7) % 7)>>

\* the X and Z branches exchanged
apply_correction_exchanged(error_type, qubit_idx) ==
    IF error_type = "X" THEN <<Z(qubit_idx[1])>>
    ELSE IF error_type = "Z" THEN <<X(qubit_idx[1])>>
    ELSE IF error_type = "Y" THEN <<Y(qubit_idx[1])>>
    ELSE <<>>

\* segment 5.1: the gate apply_correction issues on the data qubits; none for
\* None and for 'Unknown'
apply_correction(error_type, qubit_idx) ==
    IF error_type = "X" THEN <<X(qubit_idx[1])>>
    ELSE IF error_type = "Z" THEN <<Z(qubit_idx[1])>>
    ELSE IF error_type = "Y" THEN <<Y(qubit_idx[1])>>
    ELSE <<>>

----------------------------------------------------------------------------
(* One shot of a kernel, then the analysis of its bits *)

EncodingKernels == {"steane_logical_zero", "optimized_steane_encoding_with_measure"}

SyndromeKernels == {"full_syndrome_extraction"}

DecodedKernels == {"qec_cycle_with_correction_single_x_error",
                   "qec_cycle_with_correction_single_z_error"}

FlaggedKernels == {"flagged_steane_encoding_with_measure"}

Kernels == EncodingKernels \cup SyndromeKernels \cup DecodedKernels \cup FlaggedKernels

Program(k) ==
    CASE k = "steane_logical_zero" -> steane_logical_zero
      [] k = "optimized_steane_encoding_with_measure" -> optimized_steane_encoding_with_measure
      [] k = "flagged_steane_encoding_with_measure" -> flagged_steane_encoding_with_measure
      [] k = "full_syndrome_extraction" -> full_syndrome_extraction
      [] k = "qec_cycle_with_correction_single_x_error" -> qec_cycle_with_correction_single_x_error
      [] k = "qec_cycle_with_correction_single_z_error" -> qec_cycle_with_correction_single_z_error
      [] OTHER -> <<>>

Sampled == kernel \in Kernels /\ pc > Len(Program(kernel))

Init ==
    /\ kernel \in Kernels
    /\ pc = 1
    /\ destab = <<>>
    /\ stab = <<>>
    /\ rec = <<>>
    /\ verdict = "none"
    /\ decoded = <<>>
    /\ calls = <<>>
    /\ results = <<>>
    /\ valid_count = 0
    /\ num_rounds = 0
    /\ noise_level = 0
    /\ faults = 0
    /\ samples = <<>>
    /\ selected_samples = <<>>
    /\ fidelity = <<>>
    /\ physical_errors = <<>>
    /\ logical_errors = <<>>
    /\ fit = <<>>
    /\ error = <<>>

\* the sampler executes the next operation of the kernel, of the given kind
Step(kind) ==
    /\ kernel \in Kernels
    /\ ~Sampled
    /\ Program(kernel)[pc].op = kind
    /\ \E t \in Apply(State(destab, stab, rec), Program(kernel)[pc]) :
          /\ destab' = t.destab
          /\ stab' = t.stab
          /\ rec' = t.rec
    /\ pc' = pc + 1
    /\ UNCHANGED <<kernel, verdict, decoded, calls, results, valid_count,
                   roundVars, batchVars, scalingVars, correctionVars>>

StepQalloc  == Step("qalloc")
StepH       == Step("h")
StepCX      == Step("cx")
StepX       == Step("x")
StepZ       == Step("z")
StepMeasure == Step("measure")

\* the codeword set the analysis of kernel k compares the data bits with
ExpectedCodewords(k) ==
    IF k = "steane_logical_zero" THEN steane_zero_codewords ELSE valid_codewords

\* verify_codewords: is the shot's bit string one of the expected codewords
verify_codewords(sample, expected_codewords) ==
    IF sample \in expected_codewords THEN "valid" ELSE "invalid"

Verify ==
    /\ kernel \in EncodingKernels
    /\ Sampled
    /\ verdict = "none"
    /\ verdict' = verify_codewords(rec, ExpectedCodewords(kernel))
    /\ UNCHANGED <<kernel, pc, destab, stab, rec, decoded, calls, results, valid_count,
                   roundVars, batchVars, scalingVars, correctionVars>>

\* test_syndrome_decoder: decode the first six bits of the shot
DecodeShot ==
    /\ kernel \in DecodedKernels
    /\ Sampled
    /\ decoded = <<>>
    /\ decoded' = decode_syndrome(SubSeq(rec, 1, 6))
    /\ UNCHANGED <<kernel, pc, destab, stab, rec, verdict, calls, results, valid_count,
                   roundVars, batchVars, scalingVars, correctionVars>>

\* test_flagged_encoding: the first three bits of the shot are the flags
CheckFlags ==
    /\ kernel \in FlaggedKernels
    /\ Sampled
    /\ verdict = "none"
    /\ verdict' = IF \A i \in 1..3 : rec[i] = 0 THEN "flag_ok" ELSE "flag_triggered"
    /\ UNCHANGED <<kernel, pc, destab, stab, rec, decoded, calls, results, valid_count,
                   roundVars, batchVars, scalingVars, correctionVars>>

Next ==
    \/ StepQalloc
    \/ StepH
    \/ StepCX
    \/ StepX
    \/ StepZ
    \/ StepMeasure
    \/ Verify
    \/ DecodeShot
    \/ CheckFlags

Spec == Init /\ [][Next]_vars

----------------------------------------------------------------------------
(* decode_syndrome called on arbitrary six-bit syndromes *)

InitDecoder ==
    /\ kernel = "decode_syndrome"
    /\ pc = 0
    /\ destab = <<>>
    /\ stab = <<>>
    /\ rec = <<>>
    /\ verdict = "none"
    /\ decoded = <<>>
    /\ calls = <<>>
    /\ results = <<>>
    /\ valid_count = 0
    /\ num_rounds = 0
    /\ noise_level = 0
    /\ faults = 0
    /\ samples = <<>>
    /\ selected_samples = <<>>
    /\ fidelity = <<>>
    /\ physical_errors = <<>>
    /\ logical_errors = <<>>
    /\ fit = <<>>
    /\ error = <<>>

DecodeCall ==
    /\ kernel = "decode_syndrome"
    /\ Len(calls) < MaxCalls
    /\ \E s \in BitStrings(6) :
          calls' = Append(calls, [syn |-> s, res |-> decode_syndrome(s)])
    /\ UNCHANGED <<kernel, pc, destab, stab, rec, verdict, decoded, results, valid_count,
                   roundVars, batchVars, scalingVars, correctionVars>>

NextDecoder == DecodeCall

SpecDecoder == InitDecoder /\ [][NextDecoder]_vars

----------------------------------------------------------------------------
(* calculate_codeword_fidelity on a batch holding every 7-bit string once *)

\* the 7-bit string of the number j, qubit 0 first
WordOf(j) == [i \in 1..7 |-> (j \div 2^(7 - i)) % 2]

Ascending  == [j \in 1..128 |-> WordOf(j - 1)]
Descending == [j \in 1..128 |-> WordOf(128 - j)]

InitFidelity ==
    /\ kernel = "calculate_codeword_fidelity"
    /\ pc = 1
    /\ destab = <<>>
    /\ stab = <<>>
    /\ rec = <<>>
    /\ verdict = "none"
    /\ decoded = <<>>
    /\ calls = <<>>
    /\ results \in {Ascending, Descending}
    /\ valid_count = 0
    /\ num_rounds = 0
    /\ noise_level = 0
    /\ faults = 0
    /\ samples = <<>>
    /\ selected_samples = <<>>
    /\ fidelity = <<>>
    /\ physical_errors = <<>>
    /\ logical_errors = <<>>
    /\ fit = <<>>
    /\ error = <<>>

\* one term of sum(1 for bs in bitstrings if bs in valid_codewords)
CountShot ==
    /\ kernel = "calculate_codeword_fidelity"
    /\ pc <= Len(results)
    /\ rec' = results[pc]
    /\ verdict' = verify_codewords(results[pc], valid_codewords)
    /\ valid_count' = valid_count + B(results[pc] \in valid_codewords)
    /\ pc' = pc + 1
    /\ UNCHANGED <<kernel, destab, stab, decoded, calls, results,
                   roundVars, batchVars, scalingVars, correctionVars>>

Counted == kernel = "calculate_codeword_fidelity" /\ pc > Len(results)

NextFidelity == CountShot

SpecFidelity == InitFidelity /\ [][NextFidelity]_vars

----------------------------------------------------------------------------
(* One shot of a multi-round kernel *)

RoundKernels == {"multi_round_qec", "multi_round_qec_noisy"}

\* noise probabilities in thousandths: a negative one, none, test_post_selection's
NoiseLevels == {-20, 0, 20}

\* the operation list of every configuration
RoundPrograms ==
    [k \in RoundKernels, n \in 0..MaxRounds, p \in NoiseLevels |->
        IF k = "multi_round_qec" THEN multi_round_qec(n, p)
        ELSE multi_round_qec_noisy(n, p)]

RoundProgram == RoundPrograms[kernel, num_rounds, noise_level]

RoundSampled == kernel \in RoundKernels /\ pc > Len(RoundProgram)

\* multi_round_qec takes any of NoiseLevels; multi_round_qec_noisy is run with
\* p_storage = 0, where its depolarize calls are issued and apply nothing
InitRounds ==
    /\ kernel \in RoundKernels
    /\ num_rounds \in 0..MaxRounds
    /\ noise_level \in NoiseLevels
    /\ kernel = "multi_round_qec_noisy" => noise_level = 0
    /\ pc = 1
    /\ destab = <<>>
    /\ stab = <<>>
    /\ rec = <<>>
    /\ verdict = "none"
    /\ decoded = <<>>
    /\ calls = <<>>
    /\ results = <<>>
    /\ valid_count = 0
    /\ faults = 0
    /\ samples = <<>>
    /\ selected_samples = <<>>
    /\ fidelity = <<>>
    /\ physical_errors = <<>>
    /\ logical_errors = <<>>
    /\ fit = <<>>
    /\ error = <<>>

\* the sampler executes the next operation of the kernel, of the given kind;
\* a depolarize call that applies a Pauli counts as a fault
RoundStep(kind) ==
    /\ kernel \in RoundKernels
    /\ ~RoundSampled
    /\ RoundProgram[pc].op = kind
    /\ \E t \in Apply(State(destab, stab, rec), RoundProgram[pc]) :
          /\ faults' = faults + B(kind = "depolarize" /\ t # State(destab, stab, rec))
          /\ faults' <= MaxFaults
          /\ destab' = t.destab
          /\ stab' = t.stab
          /\ rec' = t.rec
    /\ pc' = pc + 1
    /\ UNCHANGED <<kernel, verdict, decoded, calls, results, valid_count,
                   num_rounds, noise_level, batchVars, scalingVars, correctionVars>>

RoundQalloc     == RoundStep("qalloc")
RoundH          == RoundStep("h")
RoundCX         == RoundStep("cx")
RoundDepolarize == RoundStep("depolarize")
RoundMeasure    == RoundStep("measure")

NextRounds ==
    \/ RoundQalloc
    \/ RoundH
    \/ RoundCX
    \/ RoundDepolarize
    \/ RoundMeasure

SpecRounds == InitRounds /\ [][NextRounds]_vars

----------------------------------------------------------------------------
(* Analysis of a batch of multi-round shots *)

\* a batch is a 2-D array (what the sampler returns, and slices of it) or a
\* Python list of rows
Batch(kind, rows) == [kind |-> kind, rows |-> rows]

\* what an analysis hands back: a quotient num / den, or the exception it raised
Returned(num, den) == [tag |-> "value", exc |-> "none", num |-> num, den |-> den]
Raised(exc)        == [tag |-> "raise", exc |-> exc, num |-> 0, den |-> 0]

\* all(s == 0 for s in syndromes) on the first n columns of a row
AllZero(row, n) == \A i \in 1..n : row[i] = 0

\* valid_count of analyze_multi_round_results: rows whose columns after the
\* 6 * n syndrome columns spell a word of steane_zero_codewords
ValidCount(rows, n) ==
    Cardinality({i \in 1..Len(rows) : SubSeq(rows[i], 6 * n + 1, Len(rows[i]))
                                          \in steane_zero_codewords})

\* samples[:, :total] needs a 2-D array; the per-round report and the fidelity
\* divide by len(samples)
analyze_multi_round_results(batch, n) ==
    IF batch.kind # "array" THEN Raised("TypeError")
    ELSE IF Len(batch.rows) = 0 THEN Raised("ZeroDivisionError")
    ELSE Returned(ValidCount(batch.rows, n), Len(batch.rows))

\* the indices of the rows whose 6 * n syndrome columns are all zero
selected_indices(rows, n) == {i \in 1..Len(rows) : AllZero(rows[i], 6 * n)}

\* the rows of the given indices, in index order
RECURSIVE RowsAt(_, _)
RowsAt(rows, idxs) ==
    IF idxs = {} THEN <<>>
    ELSE LET i == CHOOSE j \in idxs : \A k \in idxs : j <= k
         IN  <<rows[i]>> \o RowsAt(rows, idxs \ {i})

\* the selected rows handed back last first
post_select_on_syndromes_reversed(batch, n) ==
    LET kept == RowsAt(batch.rows, selected_indices(batch.rows, n))
    IN  IF selected_indices(batch.rows, n) = {} THEN Batch("array", <<>>)
        ELSE Batch("list", [i \in 1..Len(kept) |-> kept[Len(kept) + 1 - i]])

\* samples[:0] when nothing is selected, else the list of the selected rows
post_select_on_syndromes(batch, n) ==
    IF selected_indices(batch.rows, n) = {} THEN Batch("array", <<>>)
    ELSE Batch("list", RowsAt(batch.rows, selected_indices(batch.rows, n)))

\* test_post_selection: noise = 0.02 (in thousandths), num_rounds = 3
post_selection_noise  == 20
post_selection_rounds == 3

\* compare_noise_levels: the swept noise levels (in thousandths), num_rounds = 3
sweep_noise_levels == <<0, 5, 10, 20, 50>>
sweep_rounds       == 3

\* rows the sampler can return for n rounds: those of the shots in which no
\* depolarize call applies a Pauli and every X-type ancilla reads 0
SampleRows ==
    [n \in {post_selection_rounds, sweep_rounds} |->
        {r \in Readouts(multi_round_qec(n, 0)) :
            \A k \in 0..(n - 1) : \A j \in 1..3 : r[6 * k + j] = 0}]

\* the batches of 1 .. MaxShots rows
Batches(n) == UNION {[1..m -> SampleRows[n]] : m \in 1..MaxShots}

InitPostSelection ==
    /\ kernel = "test_post_selection"
    /\ num_rounds = post_selection_rounds
    /\ noise_level = post_selection_noise
    /\ samples \in {Batch("array", b) : b \in Batches(post_selection_rounds)}
    /\ selected_samples = <<>>
    /\ fidelity = <<>>
    /\ pc = 1
    /\ destab = <<>>
    /\ stab = <<>>
    /\ rec = <<>>
    /\ verdict = "none"
    /\ decoded = <<>>
    /\ calls = <<>>
    /\ results = <<>>
    /\ valid_count = 0
    /\ faults = 0
    /\ physical_errors = <<>>
    /\ logical_errors = <<>>
    /\ fit = <<>>
    /\ error = <<>>

\* fidelity_no_ps = analyze_multi_round_results(samples, num_rounds, ...)
AnalyzeAll ==
    /\ kernel = "test_post_selection"
    /\ pc = 1
    /\ fidelity' = Append(fidelity, analyze_multi_round_results(samples, num_rounds))
    /\ pc' = IF fidelity'[1].tag = "raise" THEN 4 ELSE 2
    /\ UNCHANGED <<kernel, destab, stab, rec, verdict, decoded, calls, results, valid_count,
                   roundVars, samples, selected_samples, scalingVars, correctionVars>>

\* selected_samples = post_select_on_syndromes(samples, num_rounds)
PostSelect ==
    /\ kernel = "test_post_selection"
    /\ pc = 2
    /\ selected_samples' = post_select_on_syndromes(samples, num_rounds)
    /\ pc' = 3
    /\ UNCHANGED <<kernel, destab, stab, rec, verdict, decoded, calls, results, valid_count,
                   roundVars, samples, fidelity, scalingVars, correctionVars>>

\* if len(selected_samples) > 0: fidelity_with_ps = analyze_multi_round_results(...)
AnalyzeSelected ==
    /\ kernel = "test_post_selection"
    /\ pc = 3
    /\ fidelity' = IF Len(selected_samples.rows) > 0
                   THEN Append(fidelity,
                               analyze_multi_round_results(selected_samples, num_rounds))
                   ELSE fidelity
    /\ pc' = 4
    /\ UNCHANGED <<kernel, destab, stab, rec, verdict, decoded, calls, results, valid_count,
                   roundVars, samples, selected_samples, scalingVars, correctionVars>>

NextPostSelection ==
    \/ AnalyzeAll
    \/ PostSelect
    \/ AnalyzeSelected

SpecPostSelection == InitPostSelection /\ [][NextPostSelection]_vars

----------------------------------------------------------------------------
(* compare_noise_levels: one batch and one fidelity per noise level *)

\* an entry of results: (noise, fidelity)
SweepEntry(noise, res) == [noise |-> noise, res |-> res]

InitSweep ==
    /\ kernel = "compare_noise_levels"
    /\ num_rounds = sweep_rounds
    /\ noise_level = sweep_noise_levels[1]
    /\ samples = <<>>
    /\ selected_samples = <<>>
    /\ fidelity = <<>>
    /\ pc = 1
    /\ destab = <<>>
    /\ stab = <<>>
    /\ rec = <<>>
    /\ verdict = "none"
    /\ decoded = <<>>
    /\ calls = <<>>
    /\ results = <<>>
    /\ valid_count = 0
    /\ faults = 0
    /\ physical_errors = <<>>
    /\ logical_errors = <<>>
    /\ fit = <<>>
    /\ error = <<>>

\* what analyze_multi_round_results can return for a batch of MaxShots rows
SweepFidelities ==
    {analyze_multi_round_results(Batch("array", b), sweep_rounds) :
        b \in [1..MaxShots -> SampleRows[sweep_rounds]]}

\* one pass of "for noise in noise_levels": sample a batch at that noise,
\* analyze it, append (noise, fidelity)
SweepLevel ==
    /\ kernel = "compare_noise_levels"
    /\ pc <= Len(sweep_noise_levels)
    /\ noise_level' = sweep_noise_levels[pc]
    /\ \E res \in SweepFidelities :
          fidelity' = Append(fidelity, SweepEntry(sweep_noise_levels[pc], res))
    /\ pc' = pc + 1
    /\ UNCHANGED <<kernel, destab, stab, rec, verdict, decoded, calls, results, valid_count,
                   num_rounds, faults, samples, selected_samples, scalingVars, correctionVars>>

NextSweep == SweepLevel

SpecSweep == InitSweep /\ [][NextSweep]_vars

----------------------------------------------------------------------------
(* plot_error_scaling: the data table and the power-law fit *)

Abs(x) == IF x < 0 THEN -x ELSE x

RECURSIVE Gcd(_, _)
Gcd(a, b) == IF b = 0 THEN a ELSE Gcd(b, a % b)

\* the fraction n / d (d # 0) in lowest terms with a positive denominator
Rat(n, d) ==
    LET g == Gcd(Abs(n), Abs(d))
        sgn == IF d < 0 THEN -1 ELSE 1
    IN  [n |-> (sgn * n) \div g, d |-> (sgn * d) \div g]

RAdd(a, b) == Rat(a.n * b.d + b.n * a.d, a.d * b.d)
RSub(a, b) == Rat(a.n * b.d - b.n * a.d, a.d * b.d)
RMul(a, b) == Rat(a.n * b.n, a.d * b.d)
RDiv(a, b) == Rat(a.n * b.d, a.d * b.n)
RLt(a, b)  == a.n * b.d < b.n * a.d

\* sum(xs) of a list of fractions
RECURSIVE RSum(_)
RSum(xs) == IF xs = <<>> THEN Rat(0, 1) ELSE RAdd(Head(xs), RSum(Tail(xs)))

\* an error rate is 0 or a power of two 2^r, held by its exponent r
RateZero == [zero |-> TRUE, log |-> Rat(0, 1)]
Pow2(r)  == [zero |-> FALSE, log |-> r]

\* l / p for p # 0
RateDiv(l, p) == IF l.zero THEN RateZero ELSE Pow2(RSub(l.log, p.log))

\* l < p
RateLt(l, p) ==
    IF p.zero THEN FALSE ELSE IF l.zero THEN TRUE ELSE RLt(l.log, p.log)

\* _log and _exp, in units of ln 2: _log(2^r) = r, _exp(r) = 2^r; math.log(0)
\* raises ValueError
LogRaises(xs) == \E i \in 1..Len(xs) : xs[i].zero
_log(x) == x.log
_exp(r) == Pow2(r)

\* ratio = l / p if p > 0 else 0, row by row
RatioTable(ps, ls) ==
    [i \in 1..Len(ps) |-> IF ~ps[i].zero THEN RateDiv(ls[i], ps[i]) ELSE RateZero]

\* the interpretation printed for the fitted power
Interpretation(power) ==
    IF RLt(power, Rat(1, 1)) THEN "QEC provides benefit (suppresses errors)"
    ELSE IF power = Rat(1, 1) THEN "No QEC benefit (L = aP)"
    ELSE "QEC amplifies errors (not working)"

\* what plot_error_scaling has printed and computed so far
Fit(table, raised, power, a, text, below) ==
    [table |-> table, raised |-> raised, power |-> power, a |-> a,
     interpretation |-> text, below_threshold |-> below]

\* the fit with the intercept's sign slipped: log_a = mean_y + power * mean_x
PowerLawFit_intercept_slip(table, ps, ls) ==
    IF LogRaises(ps) \/ LogRaises(ls)
    THEN Fit(table, "ValueError", Rat(0, 1), RateZero, "", 0)
    ELSE IF Len(ps) = 0
    THEN Fit(table, "ZeroDivisionError", Rat(0, 1), RateZero, "", 0)
    ELSE
    LET log_p == [i \in 1..Len(ps) |-> _log(ps[i])]
        log_l == [i \in 1..Len(ls) |-> _log(ls[i])]
        n == Rat(Len(log_p), 1)
        mean_x == RDiv(RSum(log_p), n)
        mean_y == RDiv(RSum(log_l), n)
        numerator == RSum([i \in 1..Len(log_p) |->
                             RMul(RSub(log_p[i], mean_x), RSub(log_l[i], mean_y))])
        denominator == RSum([i \in 1..Len(log_p) |->
                               RMul(RSub(log_p[i], mean_x), RSub(log_p[i], mean_x))])
        power == IF denominator # Rat(0, 1) THEN RDiv(numerator, denominator)
                 ELSE Rat(1, 1)
        log_a == RAdd(mean_y, RMul(power, mean_x))
        a == _exp(log_a)
        below == Cardinality({i \in 1..Len(ps) : RateLt(ls[i], ps[i])})
    IN  Fit(table, "none", power, a, Interpretation(power), below)

\* the regression on (log p, log L) and the report that follows it
PowerLawFit(table, ps, ls) ==
    IF LogRaises(ps) \/ LogRaises(ls)
    THEN Fit(table, "ValueError", Rat(0, 1), RateZero, "", 0)
    ELSE IF Len(ps) = 0
    THEN Fit(table, "ZeroDivisionError", Rat(0, 1), RateZero, "", 0)
    ELSE
    LET log_p == [i \in 1..Len(ps) |-> _log(ps[i])]
        log_l == [i \in 1..Len(ls) |-> _log(ls[i])]
        n == Rat(Len(log_p), 1)
        mean_x == RDiv(RSum(log_p), n)
        mean_y == RDiv(RSum(log_l), n)
        numerator == RSum([i \in 1..Len(log_p) |->
                             RMul(RSub(log_p[i], mean_x), RSub(log_l[i], mean_y))])
        denominator == RSum([i \in 1..Len(log_p) |->
                               RMul(RSub(log_p[i], mean_x), RSub(log_p[i], mean_x))])
        power == IF denominator # Rat(0, 1) THEN RDiv(numerator, denominator)
                 ELSE Rat(1, 1)
        log_a == RSub(mean_y, RMul(power, mean_x))
        a == _exp(log_a)
        below == Cardinality({i \in 1..Len(ps) : RateLt(ls[i], ps[i])})
    IN  Fit(table, "none", power, a, Interpretation(power), below)

\* the rates a sweep can hold: 0 and the powers of two down to 2^-MaxExp for p,
\* down to 2^-(MaxExp + 1) for L
PhysicalRates == {RateZero} \cup {Pow2(Rat(-k, 1)) : k \in 0..MaxExp}
LogicalRates  == {RateZero} \cup {Pow2(Rat(-k, 1)) : k \in 0..(MaxExp + 1)}

\* p values in the order of a sweep: never decreasing
Ordered(ps) == \A i \in 1..(Len(ps) - 1) : ~RateLt(ps[i + 1], ps[i])

InitScaling ==
    /\ kernel = "plot_error_scaling"
    /\ \E m \in 0..MaxPoints :
          /\ physical_errors \in {ps \in [1..m -> PhysicalRates] : Ordered(ps)}
          /\ logical_errors \in [1..m -> LogicalRates]
    /\ fit = <<>>
    /\ error = <<>>
    /\ pc = 1
    /\ destab = <<>>
    /\ stab = <<>>
    /\ rec = <<>>
    /\ verdict = "none"
    /\ decoded = <<>>
    /\ calls = <<>>
    /\ results = <<>>
    /\ valid_count = 0
    /\ num_rounds = 0
    /\ noise_level = 0
    /\ faults = 0
    /\ samples = <<>>
    /\ selected_samples = <<>>
    /\ fidelity = <<>>

\* the data table: one row per point with its ratio
PrintTable ==
    /\ kernel = "plot_error_scaling"
    /\ pc = 1
    /\ fit' = Fit(RatioTable(physical_errors, logical_errors), "none",
                  Rat(0, 1), RateZero, "", 0)
    /\ pc' = 2
    /\ UNCHANGED <<kernel, destab, stab, rec, verdict, decoded, calls, results, valid_count,
                   roundVars, batchVars, physical_errors, logical_errors, correctionVars>>

\* the fit, its interpretation and the threshold count, or the exception
FitPowerLaw ==
    /\ kernel = "plot_error_scaling"
    /\ pc = 2
    /\ fit' = PowerLawFit(fit.table, physical_errors, logical_errors)
    /\ pc' = 3
    /\ UNCHANGED <<kernel, destab, stab, rec, verdict, decoded, calls, results, valid_count,
                   roundVars, batchVars, physical_errors, logical_errors, correctionVars>>

NextScaling ==
    \/ PrintTable
    \/ FitPowerLaw

SpecScaling == InitScaling /\ [][NextScaling]_vars

----------------------------------------------------------------------------
(* The correction cycle: encoded data with a Pauli error or none, a syndrome
   decoded, the correction applied *)

\* the Pauli gate of an error
PauliOp(kind, q) == IF kind = "X" THEN X(q) ELSE IF kind = "Z" THEN Z(q) ELSE Y(q)

\* the errors put on the data: none, or one Pauli on one qubit
InjectedErrors == {<<>>} \cup {<<k, q>> : k \in {"X", "Y", "Z"}, q \in 0..6}

\* the data after the encoding and the error
ErrorStates ==
    [e \in InjectedErrors |->
        CHOOSE t \in RunAll(prepare_steane_logical_zero
                               \o (IF e = <<>> THEN <<>> ELSE <<PauliOp(e[1], e[2])>>),
                            1, {EmptyState}) : TRUE]

InitCorrection ==
    /\ kernel = "apply_correction"
    /\ pc = 1
    /\ error \in InjectedErrors
    /\ destab = ErrorStates[error].destab
    /\ stab = ErrorStates[error].stab
    /\ rec = <<>>
    /\ verdict = "none"
    /\ decoded = <<>>
    /\ calls = <<>>
    /\ results = <<>>
    /\ valid_count = 0
    /\ num_rounds = 0
    /\ noise_level = 0
    /\ faults = 0
    /\ samples = <<>>
    /\ selected_samples = <<>>
    /\ fidelity = <<>>
    /\ physical_errors = <<>>
    /\ logical_errors = <<>>
    /\ fit = <<>>

\* a six-bit syndrome is decoded
DecodeSyndrome ==
    /\ kernel = "apply_correction"
    /\ pc = 1
    /\ \E s \in BitStrings(6) :
          /\ calls' = <<[syn |-> s, res |-> decode_syndrome(s)]>>
          /\ decoded' = decode_syndrome(s)
    /\ pc' = 2
    /\ UNCHANGED <<kernel, destab, stab, rec, verdict, results, valid_count,
                   roundVars, batchVars, scalingVars, correctionVars>>

\* apply_correction is called with the decoder's result
Correct ==
    /\ kernel = "apply_correction"
    /\ pc = 2
    /\ \E t \in RunAll(apply_correction(decoded[1], decoded[2]), 1,
                       {State(destab, stab, rec)}) :
          /\ destab' = t.destab
          /\ stab' = t.stab
          /\ rec' = t.rec
    /\ pc' = 3
    /\ UNCHANGED <<kernel, verdict, decoded, calls, results, valid_count,
                   roundVars, batchVars, scalingVars, correctionVars>>

NextCorrection ==
    \/ DecodeSyndrome
    \/ Correct

SpecCorrection == InitCorrection /\ [][NextCorrection]_vars

----------------------------------------------------------------------------
(* Notions the properties are stated with *)

SingleErrors == {"X", "Y", "Z"} \X (0..6)

\* syndrome of one Pauli error on qubit q: bit i is 1 iff q is in the support of
\* generator i and the generator's type detects the kind (X-generators detect Z
\* and Y, Z-generators detect X and Y); X-generator bits first
SyndromeOf(kind, q) ==
    [i \in 1..6 |->
        IF i <= 3 THEN B(q \in x_generators[i] /\ kind \in {"Z", "Y"})
                  ELSE B(q \in z_generators[i - 3] /\ kind \in {"X", "Y"})]

\* the syndromes of all single-qubit errors, tabulated
SyndromeOfError == [e \in SingleErrors |-> SyndromeOf(e[1], e[2])]

ZeroSyndrome == [i \in 1..6 |-> 0]

SyndromeOfErrorRange == {SyndromeOfError[e] : e \in SingleErrors}

\* the syndromes decode_syndrome does not answer with ('Unknown', -1)
Decodable == {s \in BitStrings(6) : decode_syndrome(s) # Unknown}

\* the syndromes decode_syndrome answers with ('Unknown', -1)
Uncorrectable == BitStrings(6) \ Decodable

\* the syndromes whose X-generator part (bits 0..2) and Z-generator part (bits
\* 3..5) are both nonzero and differ
MixedSyndromes ==
    {s \in BitStrings(6) :
        /\ SubSeq(s, 1, 3) # <<0, 0, 0>>
        /\ SubSeq(s, 4, 6) # <<0, 0, 0>>
        /\ SubSeq(s, 1, 3) # SubSeq(s, 4, 6)}

UncorrectableAreMixed ==
    /\ Uncorrectable = MixedSyndromes
    /\ Cardinality(Uncorrectable) = 42

\* the syndrome of two errors: the bitwise sum of their syndromes
SyndromeSum(s, t) == [i \in 1..6 |-> Xor(s[i], t[i])]

\* the pairs of same-type errors on two distinct qubits, each with its syndrome
PairTable ==
    {d \in {<<k, q1, q2, SyndromeSum(SyndromeOf(k, q1), SyndromeOf(k, q2))>> :
                k \in {"X", "Z"}, q1 \in 0..6, q2 \in 0..6} : d[2] # d[3]}

\* per syndrome, the pairs of same-type errors on two distinct qubits that give it
PairsOf ==
    Table([s \in BitStrings(6) |-> {<<d[1], d[2], d[3]>> : d \in {e \in PairTable : e[4] = s}}])

\* does the dict literal list syndrome s for the single error (kind, q)
TableLists(s, kind, q) ==
    \E i \in 1..Len(STEANE_SYNDROME_TABLE) :
        STEANE_SYNDROME_TABLE[i].key = s /\ STEANE_SYNDROME_TABLE[i].value = Err(kind, q)

\* answer res to syndrome s names, for the pair d of errors, a single error of
\* the same type on a third qubit whose table syndrome is s
ThirdQubit(s, res, d) ==
    \E q3 \in (0..6) \ {d[2], d[3]} : res = Err(d[1], q3) /\ TableLists(s, d[1], q3)

\* every pair has a syndrome, and the decoder answers each of them with a third qubit
PairsDecodeToThird ==
    /\ \A k \in {"X", "Z"} : \A q1 \in 0..6 : \A q2 \in (0..6) \ {q1} :
          <<k, q1, q2>> \in PairsOf[SyndromeSum(SyndromeOf(k, q1), SyndromeOf(k, q2))]
    /\ \A s \in BitStrings(6) : \A d \in PairsOf[s] : ThirdQubit(s, decode_syndrome(s), d)

\* the generator-derived syndromes are pairwise distinct and nonzero
SyndromesDistinct ==
    /\ \A e \in SingleErrors : \A f \in SingleErrors :
          e # f => SyndromeOfError[e] # SyndromeOfError[f]
    /\ \A e \in SingleErrors : SyndromeOfError[e] # ZeroSyndrome

\* no key occurs twice in the dict literal
KeysUnique ==
    \A i \in 1..Len(STEANE_SYNDROME_TABLE) : \A j \in 1..Len(STEANE_SYNDROME_TABLE) :
        STEANE_SYNDROME_TABLE[i].key = STEANE_SYNDROME_TABLE[j].key => i = j

\* number of ones of bit string w on the qubits of g
Weight(w, g) == Cardinality({q \in g : w[q + 1] = 1})

\* w with the bits on the qubits of g flipped
Flip(w, g) == [i \in 1..Len(w) |-> IF (i - 1) \in g THEN 1 - w[i] ELSE w[i]]

\* the decoder's result space
ResultSpace == {NoError, Unknown} \cup {Err(e[1], e[2]) : e \in SingleErrors}

\* the state a kernel without measurements ends in
RunGates(ops) == CHOOSE t \in RunAll(ops, 1, {EmptyState}) : TRUE

\* what the standard and the depth-optimized encoding leave and read out
StandardEncoded   == RunGates(prepare_steane_logical_zero)
StandardReadouts  == Readouts(steane_logical_zero)
OptimizedReadouts == Readouts(optimized_steane_encoding_with_measure)

Syndrome6 == SubSeq(rec, 1, 6)

\* the last seven bits of a multi-round shot's record
FinalData == SubSeq(rec, 6 * num_rounds + 1, 6 * num_rounds + 7)

\* the qubits of the measurement requests of an operation list, in program order
Requests(ops) ==
    LET IsMeasure(o) == o.op = "measure"
        ms == SelectSeq(ops, IsMeasure)
    IN  [i \in 1..Len(ms) |-> ms[i].a]

\* the measurement requests of every multi-round configuration
RoundRequests ==
    [k \in RoundKernels, n \in 0..MaxRounds, p \in NoiseLevels |->
        Requests(RoundPrograms[k, n, p])]

\* number of measurement requests among the first i operations, per configuration
RequestCount ==
    [k \in RoundKernels, n \in 0..MaxRounds, p \in NoiseLevels |->
        [i \in 0..Len(RoundPrograms[k, n, p]) |->
            Len(Requests(SubSeq(RoundPrograms[k, n, p], 1, i)))]]

\* the generator an ancilla is coupled to by an operation list: X-type on the
\* targets of its CNOTs when it is their control between Hadamards, Z-type on
\* the controls of its CNOTs when it is their target
Coupling(ops, anc) ==
    LET targets  == {ops[i].b : i \in {j \in 1..Len(ops) : ops[j].op = "cx" /\ ops[j].a = anc}}
        controls == {ops[i].a : i \in {j \in 1..Len(ops) : ops[j].op = "cx" /\ ops[j].b = anc}}
        hs       == {j \in 1..Len(ops) : ops[j] = H(anc)}
    IN  IF targets # {} /\ controls = {} /\ Cardinality(hs) = 2 THEN <<"X", targets>>
        ELSE IF targets = {} /\ hs = {} THEN <<"Z", controls>>
        ELSE <<"none", {}>>

RoundCoupling ==
    [k \in RoundKernels, n \in 0..MaxRounds, p \in NoiseLevels |->
        [a \in 7..(6 + 6 * n) |-> Coupling(RoundPrograms[k, n, p], a)]]

\* generator j of the documented order: S1, S2, S3 (X-type), S4, S5, S6 (Z-type)
Generator(j) ==
    IF j < 3 THEN <<"X", x_generators[j + 1]>> ELSE <<"Z", z_generators[j - 2]>>

\* what a shot has done: depolarize calls per data qubit, measurements per
\* generator's ancilla (index 6: an ancilla coupled to no generator),
\* measurements per data qubit, completed runs of the encoding
TallyZero ==
    [noise |-> [q \in 0..6 |-> 0], extracted |-> [g \in 0..6 |-> 0],
     data |-> [q \in 0..6 |-> 0], encoded |-> 0]

GeneratorIndex(ops, anc) ==
    IF \E g \in 0..5 : Coupling(ops, anc) = Generator(g)
    THEN CHOOSE g \in 0..5 : Coupling(ops, anc) = Generator(g)
    ELSE 6

TallyStep(t, ops, i) ==
    LET o == ops[i]
        e == IF i >= Len(prepare_steane_logical_zero)
                /\ SubSeq(ops, i + 1 - Len(prepare_steane_logical_zero), i)
                      = prepare_steane_logical_zero
             THEN 1 ELSE 0
        u == [t EXCEPT !.encoded = @ + e]
    IN  IF o.op = "depolarize" /\ o.a < 7 THEN [u EXCEPT !.noise[o.a] = @ + 1]
        ELSE IF o.op = "measure" /\ o.a < 7 THEN [u EXCEPT !.data[o.a] = @ + 1]
        ELSE IF o.op = "measure"
             THEN [u EXCEPT !.extracted[GeneratorIndex(ops, o.a)] = @ + 1]
        ELSE u

\* the tallies before each operation of an operation list and after the last,
\* extended one stretch of operations at a time
RECURSIVE TalliesUpTo(_, _, _, _)
TalliesUpTo(ops, i, stop, acc) ==
    IF i > stop THEN acc
    ELSE LET next == Append(acc, TallyStep(acc[i], ops, i))
         IN  IF next[i + 1].encoded >= 0 THEN TalliesUpTo(ops, i + 1, stop, next) ELSE acc

RECURSIVE TalliesFrom(_, _, _)
TalliesFrom(ops, i, acc) ==
    IF i > Len(ops) THEN acc
    ELSE LET stop == IF i + 12 < Len(ops) THEN i + 12 ELSE Len(ops)
             next == TalliesUpTo(ops, i, stop, acc)
         IN  IF Len(next) = stop + 1 THEN TalliesFrom(ops, stop + 1, next) ELSE acc

Tallies(ops) == TalliesFrom(ops, 1, <<TallyZero>>)

\* the tallies of every configuration, computed once
RECURSIVE ScheduleFrom(_, _)
ScheduleFrom(todo, acc) ==
    IF todo = {} THEN acc
    ELSE LET c    == CHOOSE x \in todo : TRUE
             next == acc @@ (c :> Tallies(RoundPrograms[c]))
         IN  IF c \in DOMAIN next THEN ScheduleFrom(todo \ {c}, next) ELSE acc

Schedule ==
    LET all == RoundKernels \X (0..MaxRounds) \X NoiseLevels
        c0  == CHOOSE x \in all : TRUE
    IN  ScheduleFrom(all \ {c0}, c0 :> Tallies(RoundPrograms[c0]))

\* the tally of the current shot
Tally == Schedule[kernel, num_rounds, noise_level][pc]

\* rounds whose six generators have all been extracted, for a tally t
RoundsDone(t) ==
    CHOOSE d \in 0..num_rounds :
        /\ \A g \in 0..5 : t.extracted[g] >= d
        /\ \E g \in 0..5 : t.extracted[g] = d

\* the kernel issues depolarize calls on the data: multi_round_qec only for a
\* positive noise_level, multi_round_qec_noisy always
IssuesNoise == kernel = "multi_round_qec_noisy" \/ noise_level > 0

\* the schedule of a run, on its tally t with d rounds done: one encoding,
\* then rounds one after another, each the noise calls on all 7 data qubits
\* (when issued) and then one measurement per generator, then one measurement
\* per data qubit
ScheduledAt(t, d) ==
    /\ t.encoded <= 1
    /\ Len(stab) >= 7 <=> pc > 1
    /\ pc > Len(prepare_steane_logical_zero) <=> t.encoded = 1
    /\ t.extracted[6] = 0
    /\ \A g \in 0..5 : t.extracted[g] \in {d, d + 1} /\ t.extracted[g] <= num_rounds
    /\ \A q \in 0..6 :
          IF IssuesNoise
          THEN /\ t.noise[q] \in {d, d + 1}
               /\ t.noise[q] <= num_rounds
               /\ Len(stab) > 7 + 6 * d => t.noise[q] = d + 1
          ELSE t.noise[q] = 0
    /\ \A q \in 0..6 :
          /\ t.data[q] <= 1
          /\ t.data[q] = 1 => /\ d = num_rounds
                              /\ Len(stab) = 7 + 6 * num_rounds
                              /\ IssuesNoise => \A r \in 0..6 : t.noise[r] = num_rounds
    /\ RoundSampled <=> \A q \in 0..6 : t.data[q] = 1

Scheduled ==
    LET t == Tally
        d == RoundsDone(t)
    IN  ScheduledAt(t, d)

\* the configurations of the multi-round kernels
RoundConfigs == RoundKernels \X (0..MaxRounds) \X NoiseLevels

\* the operations of a list that act on a data qubit, in program order
DataOps(ops) ==
    LET OnData(o) == o.op # "qalloc" /\ (o.a < 7 \/ (o.op = "cx" /\ o.b < 7))
    IN  SelectSeq(ops, OnData)

\* per configuration: the data qubits get gates of the encoding and the
\* extraction, noise calls and the readout only: no Pauli correction
CorrectionFree ==
    Table([c \in RoundConfigs |->
              LET ops == DataOps(RoundPrograms[c])
              IN  \A i \in 1..Len(ops) :
                      ops[i].op \in {"h", "cx", "depolarize", "measure"}])

\* the syndrome bits of round r (from 0) of the current shot
RoundSyndrome(r) == SubSeq(rec, 6 * r + 1, 6 * r + 6)

\* the rows of a batch whose first 6 * n bits are all zero, in batch order
ZeroSyndromeRows(rows, n) ==
    LET Clean(row) == SubSeq(row, 1, 6 * n) = [i \in 1..(6 * n) |-> 0]
    IN  SelectSeq(rows, Clean)

\* the qubits an operation list allocates
Allocated(ops) ==
    LET IsQalloc(o) == o.op = "qalloc"
        qs == SelectSeq(ops, IsQalloc)
        sizes == [i \in 1..Len(qs) |-> qs[i].a]
    IN  IF Len(qs) = 0 THEN 0
        ELSE LET total[i \in 1..Len(qs)] == IF i = 1 THEN sizes[1] ELSE total[i - 1] + sizes[i]
             IN  total[Len(qs)]

\* per configuration: 7 + 6R qubits are allocated, ancilla 7 + 6r + j is
\* coupled to generator j and to nothing else, every ancilla is measured
\* exactly once and no two-qubit gate joins two ancillas
Disciplined ==
    Table([c \in RoundConfigs |->
              LET ops == RoundPrograms[c]
              IN  /\ Allocated(ops) = 7 + 6 * c[2]
                  /\ \A a \in 7..(6 + 6 * c[2]) :
                        /\ Coupling(ops, a) = Generator((a - 7) % 6)
                        /\ Cardinality({i \in 1..Len(ops) : ops[i] = M(a)}) = 1
                  /\ \A i \in 1..Len(ops) :
                        /\ ops[i].op = "cx" => (ops[i].a < 7 \/ ops[i].b < 7)
                        /\ ops[i].op # "qalloc" => ops[i].a <= 6 + 6 * c[2]])

\* the kernels of one shot that extract the six syndromes
ExtractionKernels == SyndromeKernels \cup DecodedKernels

\* two generators of different type commute iff their supports share an even
\* number of qubits; generators of the same type always do
Commute(g, h) == g[1] = h[1] \/ Cardinality(g[2] \cap h[2]) % 2 = 0

\* per kernel: ancilla 7 + j measures generator j of the documented list, and
\* the generators measured commute with each other
ExtractionCommutes ==
    Table([k \in ExtractionKernels |->
              /\ \A a \in 7..12 : Coupling(Program(k), a) = Generator(a - 7)
              /\ \A a \in 7..12 : \A b \in 7..12 :
                    Commute(Coupling(Program(k), a), Coupling(Program(k), b))])

\* the value a Z-measurement of qubit q is certain to give in the current state,
\* -1 when its outcome is open
CertainBit(q) ==
    IF Anti(State(destab, stab, rec), q) # {} THEN -1
    ELSE LET t == MeasureFixed(State(destab, stab, <<>>), q) IN t.rec[1]

\* plot_error_scaling has run to its end or to its exception
Plotted == kernel = "plot_error_scaling" /\ pc = 3

\* the sweep has a point with physical error rate 0
HasZeroRate == \E i \in 1..Len(physical_errors) : physical_errors[i].zero

\* all points of the sweep share one physical error rate
OneRate ==
    \A i \in 1..Len(physical_errors) : physical_errors[i] = physical_errors[1]

\* the sweep without its points of physical error rate 0
NonZeroPoints ==
    LET keep == {i \in 1..Len(physical_errors) : ~physical_errors[i].zero}
    IN  [ps |-> RowsAt(physical_errors, keep), ls |-> RowsAt(logical_errors, keep)]

\* the exponent and the log-coefficient of the power law through points i and j
SlopeOf(i, j) ==
    RDiv(RSub(logical_errors[i].log, logical_errors[j].log),
         RSub(physical_errors[i].log, physical_errors[j].log))

InterceptOf(i, j) ==
    RSub(logical_errors[i].log, RMul(SlopeOf(i, j), physical_errors[i].log))

\* every point of the sweep lies on the power law through points i and j
OnPowerLaw(i, j) ==
    \A k \in 1..Len(physical_errors) :
        logical_errors[k].log =
            RAdd(InterceptOf(i, j), RMul(SlopeOf(i, j), physical_errors[k].log))

\* the readouts of the encoding followed directly by readout (zero rounds)
EncodedReadouts == Readouts(multi_round_qec(0, 0))

----------------------------------------------------------------------------
(* simulate_correction_benefit: two sampled batches and a summary *)

\* the nested kernel no_qec; paulis are the operations its seven depolarize calls apply
no_qec(paulis) ==
    prepare_steane_logical_zero \o paulis \o MeasureRange(0, 7)

\* the nested kernel qec_postselect: six syndrome bits, then seven data bits
qec_postselect(paulis) ==
    prepare_steane_logical_zero \o paulis \o measure_all_syndromes(7)
    \o MeasureRange(7, 6) \o MeasureRange(0, 7)

\* the shots considered: depolarize applies nothing, or one X to data qubit 5
BenefitFaults == {<<>>, <<X(5)>>}

\* rows the sampler can return for no_qec, of the shots in which data qubits 0
\* and 1 read 0
NoQecRows ==
    {r \in UNION {Readouts(no_qec(f)) : f \in BenefitFaults} : r[1] = 0 /\ r[2] = 0}

\* rows the sampler can return for qec_postselect, of the shots in which the
\* ancillas of S1, S3, S4 and S6 read 0
PostselectRows ==
    {r \in UNION {Readouts(qec_postselect(f)) : f \in BenefitFaults} :
        \A j \in {1, 3, 4, 6} : r[j] = 0}

\* the batches of 1 .. MaxShots rows drawn from a set of rows
BatchesOf(rows) == UNION {[1..m -> rows] : m \in 1..MaxShots}

NoQecBatches == BatchesOf(NoQecRows)

PostselectBatches == BatchesOf(PostselectRows)

\* sum(1 for bs in ... if bs in valid_codewords)
CountValid(words) == Cardinality({i \in 1..Len(words) : words[i] \in valid_codewords})

\* the loop over results: the data part shot[6:] of every shot whose first six
\* bits are all zero, in order
selected_data(rows) ==
    LET kept == RowsAt(rows, {i \in 1..Len(rows) : AllZero(rows[i], 6)})
    IN  [i \in 1..Len(kept) |-> SubSeq(kept[i], 7, 13)]

InitBenefit ==
    /\ kernel = "simulate_correction_benefit"
    /\ pc = 1
    /\ samples = <<>>
    /\ selected_samples = <<>>
    /\ fidelity = <<>>
    /\ verdict = "none"
    /\ destab = <<>>
    /\ stab = <<>>
    /\ rec = <<>>
    /\ decoded = <<>>
    /\ calls = <<>>
    /\ results = <<>>
    /\ valid_count = 0
    /\ num_rounds = 0
    /\ noise_level = 10
    /\ faults = 0
    /\ physical_errors = <<>>
    /\ logical_errors = <<>>
    /\ fit = <<>>
    /\ error = <<>>

\* results = backend.sample(no_qec, shots)
SampleNoQec ==
    /\ kernel = "simulate_correction_benefit"
    /\ pc = 1
    /\ samples' \in NoQecBatches
    /\ pc' = 2
    /\ UNCHANGED <<kernel, destab, stab, rec, verdict, decoded, calls, results, valid_count,
                   roundVars, selected_samples, fidelity, scalingVars, correctionVars>>

\* fidelity_no_qec = (number of valid bitstrings) / shots
FidelityNoQec ==
    /\ kernel = "simulate_correction_benefit"
    /\ pc = 2
    /\ fidelity' = <<Returned(CountValid(samples), Len(samples))>>
    /\ pc' = 3
    /\ UNCHANGED <<kernel, destab, stab, rec, verdict, decoded, calls, results, valid_count,
                   roundVars, samples, selected_samples, scalingVars, correctionVars>>

\* results = backend.sample(qec_postselect, shots)
SamplePostselect ==
    /\ kernel = "simulate_correction_benefit"
    /\ pc = 3
    /\ samples' \in PostselectBatches
    /\ pc' = 4
    /\ UNCHANGED <<kernel, destab, stab, rec, verdict, decoded, calls, results, valid_count,
                   roundVars, selected_samples, fidelity, scalingVars, correctionVars>>

\* the loop filling selected_data
SelectData ==
    /\ kernel = "simulate_correction_benefit"
    /\ pc = 4
    /\ selected_samples' = selected_data(samples)
    /\ pc' = 5
    /\ UNCHANGED <<kernel, destab, stab, rec, verdict, decoded, calls, results, valid_count,
                   roundVars, samples, fidelity, scalingVars, correctionVars>>

\* if selected_data: fidelity_postselect and success_rate are assigned;
\* fidelity holds fidelity_no_qec, fidelity_postselect, success_rate in this order
ReportPostselect ==
    /\ kernel = "simulate_correction_benefit"
    /\ pc = 5
    /\ fidelity' = IF Len(selected_samples) > 0
                   THEN fidelity \o
                        <<Returned(CountValid(selected_samples), Len(selected_samples)),
                          Returned(Len(selected_samples), Len(samples))>>
                   ELSE fidelity
    /\ pc' = 6
    /\ UNCHANGED <<kernel, destab, stab, rec, verdict, decoded, calls, results, valid_count,
                   roundVars, samples, selected_samples, scalingVars, correctionVars>>

\* the summary reads fidelity_no_qec, fidelity_postselect and success_rate; a
\* local that was never assigned raises UnboundLocalError
Summary ==
    /\ kernel = "simulate_correction_benefit"
    /\ pc = 6
    /\ verdict' = IF Len(fidelity) = 3 THEN "summary" ELSE "UnboundLocalError"
    /\ pc' = 7
    /\ UNCHANGED <<kernel, destab, stab, rec, decoded, calls, results, valid_count,
                   roundVars, batchVars, scalingVars, correctionVars>>

NextBenefit ==
    \/ SampleNoQec
    \/ FidelityNoQec
    \/ SamplePostselect
    \/ SelectData
    \/ ReportPostselect
    \/ Summary

SpecBenefit == InitBenefit /\ [][NextBenefit]_vars

----------------------------------------------------------------------------
(* Properties *)

\* C1: noiseless round trip: every encoding kernel, run from the all-zero state
\* and read out at once, yields a 7-bit string of valid_codewords.
C1_RoundTripValid ==
    (kernel \in EncodingKernels /\ Sampled) =>
        (rec \in valid_codewords /\ rec \in steane_zero_codewords)

\* C2: with no injected error and no noise the six stabilizer measurements of
\* full_syndrome_extraction read (0,0,0,0,0,0).
C2_NoErrorZeroSyndrome ==
    (kernel = "full_syndrome_extraction" /\ Len(rec) >= 6) => Syndrome6 = ZeroSyndrome

\* C3: for every qubit q, decode_syndrome of the generator-derived syndrome of a
\* single X error on q is ('X', q), and of a single Z error on q is ('Z', q).
C3_SingleErrorDecoded ==
    \A i \in 1..Len(calls) : \A kind \in {"X", "Z"} : \A q \in 0..6 :
        calls[i].syn = SyndromeOfError[<<kind, q>>] => calls[i].res = Err(kind, q)

C3_Witness ==
    \E i \in 1..Len(calls) : \E kind \in {"X", "Z"} : \E q \in 0..6 :
        calls[i].syn = SyndromeOfError[<<kind, q>>] /\ calls[i].res = Err(kind, q)

C6_Injective ==
    /\ SyndromesDistinct
    /\ KeysUnique
    /\ \A i \in 1..Len(calls) : \A j \in 1..Len(calls) :
          (/\ calls[i].syn \in SyndromeOfErrorRange
           /\ calls[j].syn \in SyndromeOfErrorRange
           /\ calls[i].syn # calls[j].syn) => calls[i].res # calls[j].res

C6_Witness ==
    /\ Len(calls) = 2
    /\ calls[1].syn = SyndromeOf("X", 5) /\ calls[1].res = Err("X", 5)
    /\ calls[2].syn = SyndromeOf("Y", 5) /\ calls[2].res = Err("Y", 5)

C8_CodewordsStabilized ==
    (kernel = "calculate_codeword_fidelity" /\ verdict = "valid") =>
        /\ \A i \in 1..3 : Weight(rec, z_generators[i]) % 2 = 0
        /\ \A i \in 1..3 : Flip(rec, x_generators[i]) \in valid_codewords

\* C9 as stated: the number of valid codewords is 2^k with k = 1.
C9_Original ==
    Counted => (valid_count = 2^1 /\ Cardinality(valid_codewords) = 2^1)

\* C9 amended: the number of valid codewords is 8 = 2^3, two to the number of
\* X-type generators: a batch holding every 7-bit string once counts 8 valid.
C9_Amended ==
    Counted =>
        /\ valid_count = 2^Len(x_generators)
        /\ Cardinality(valid_codewords) = 2^Len(x_generators)
        /\ Cardinality(steane_zero_codewords) = 2^Len(x_generators)

C9_Witness == Counted /\ valid_count = 8

\* C10: the depth-optimized and the standard encoding prepare the same state:
\* the same stabilizer rows before readout and the same possible readouts.
C10_SameState ==
    /\ (kernel = "optimized_steane_encoding_with_measure"
        /\ pc = Len(optimized_steane_encoding) + 1)
          => /\ stab = StandardEncoded.stab
             /\ destab = StandardEncoded.destab
    /\ (kernel = "optimized_steane_encoding_with_measure" /\ Sampled)
          => /\ rec \in StandardReadouts
             /\ \A r \in StandardReadouts : SubSeq(r, 1, 3) = SubSeq(rec, 1, 3) => r = rec
    /\ (kernel = "steane_logical_zero" /\ Sampled)
          => /\ rec \in OptimizedReadouts
             /\ \A r \in OptimizedReadouts : SubSeq(r, 1, 3) = SubSeq(rec, 1, 3) => r = rec

C10_Witness ==
    /\ kernel = "optimized_steane_encoding_with_measure"
    /\ Sampled
    /\ rec = <<1,1,1,0,0,0,1>>

\* C11: a noiseless multi_round_qec shot with R >= 1 rounds ends in a data readout
\* that the encoding followed directly by readout (R = 0) can also give.
C11_ExtractionPreservesData ==
    (kernel = "multi_round_qec" /\ noise_level = 0 /\ num_rounds >= 1 /\ RoundSampled)
        => FinalData \in EncodedReadouts

\* C12: the record of a multi-round shot holds one column per measurement
\* request in program order; a finished shot has 6R + 7 columns, column 6r + j
\* is the ancilla coupled to generator j (S1, S2, S3, then S4, S5, S6) in round
\* r, columns 6R .. 6R + 6 are data qubits 0 .. 6, and each column holds the bit
\* its qubit was left in.
C12_ColumnLayout ==
    kernel \in RoundKernels =>
        /\ Len(rec) = RequestCount[kernel, num_rounds, noise_level][pc - 1]
        /\ RoundSampled =>
              /\ Len(rec) = 6 * num_rounds + 7
              /\ \A r \in 0..(num_rounds - 1) : \A j \in 0..5 :
                    LET q == RoundRequests[kernel, num_rounds, noise_level][6 * r + j + 1]
                    IN  /\ q = 7 + 6 * r + j
                        /\ RoundCoupling[kernel, num_rounds, noise_level][q] = Generator(j)
                        /\ CertainBit(q) = rec[6 * r + j + 1]
              /\ \A i \in 0..6 :
                    /\ RoundRequests[kernel, num_rounds, noise_level][6 * num_rounds + i + 1] = i
                    /\ CertainBit(i) = rec[6 * num_rounds + i + 1]

C12_Witness ==
    /\ kernel = "multi_round_qec"
    /\ num_rounds = 2
    /\ RoundSampled
    /\ rec[7] = 1
    /\ rec[6 * num_rounds + 4] = 1

\* C13: when test_post_selection is through and at least one shot was retained,
\* the fraction of valid codewords among the retained shots has been computed
\* and is at least the fraction among all shots of the batch.
C13_PostSelectionImproves ==
    (kernel = "test_post_selection" /\ pc = 4
     /\ selected_indices(samples.rows, num_rounds) # {}) =>
        /\ Len(fidelity) = 2
        /\ fidelity[1].tag = "value"
        /\ fidelity[2].tag = "value"
        /\ fidelity[2].num * fidelity[1].den >= fidelity[1].num * fidelity[2].den

\* C14: a completed power-law analysis reports suppression (QEC provides
\* benefit) exactly when the fitted exponent is greater than 1 and reports
\* amplification when it is less than 1.
C14_SuppressionIffSteep ==
    (Plotted /\ fit.raised = "none") =>
        /\ fit.interpretation = "QEC provides benefit (suppresses errors)"
              <=> RLt(Rat(1, 1), fit.power)
        /\ RLt(fit.power, Rat(1, 1))
              => fit.interpretation = "QEC amplifies errors (not working)"

\* C15: for a sweep with a point of physical error rate 0 (and no logical error
\* rate 0) the table has a row for every point, nothing is raised, and the fit
\* is the fit of the points with nonzero physical error rate.
C15_ZeroRateExcluded ==
    (Plotted /\ HasZeroRate /\ ~LogRaises(logical_errors)) =>
        /\ Len(fit.table) = Len(physical_errors)
        /\ fit.raised = "none"
        /\ fit.power = PowerLawFit(fit.table, NonZeroPoints.ps, NonZeroPoints.ls).power

\* C16 (what the claim excludes): in a finished analysis no exception was
\* raised, no row of a point with physical error rate 0 shows the number 0 as
\* its ratio, and the exponent of a sweep whose points share one physical error
\* rate is not the number 1.
C16_DegenerateSurfaced ==
    Plotted =>
        /\ fit.raised = "none"
        /\ \A i \in 1..Len(physical_errors) :
              physical_errors[i].zero => fit.table[i] # RateZero
        /\ (Len(physical_errors) > 0 /\ OneRate) => fit.power # Rat(1, 1)

\* C18: for a sweep of nonzero rates with two different physical error rates
\* whose points all lie on L = a * p^beta, the fit returns power = beta and
\* coefficient a.
C18_FitRecoversPowerLaw ==
    (Plotted /\ ~LogRaises(physical_errors) /\ ~LogRaises(logical_errors)) =>
        \A i \in 1..Len(physical_errors) : \A j \in 1..Len(physical_errors) :
            (physical_errors[i] # physical_errors[j] /\ OnPowerLaw(i, j)) =>
                /\ fit.raised = "none"
                /\ fit.power = SlopeOf(i, j)
                /\ fit.a = Pow2(InterceptOf(i, j))

C18_Witness ==
    /\ Plotted
    /\ Len(physical_errors) = 3
    /\ physical_errors = <<Pow2(Rat(-2, 1)), Pow2(Rat(-1, 1)), Pow2(Rat(0, 1))>>
    /\ logical_errors = <<Pow2(Rat(-3, 1)), Pow2(Rat(-2, 1)), Pow2(Rat(-1, 1))>>
    /\ fit.power = Rat(1, 1)
    /\ fit.a = Pow2(Rat(-1, 1))

\* C17: a multi-round experiment configured with a negative noise probability
\* is rejected before any shot is sampled: no operation of a shot is executed.
C17_NegativeNoiseRejected ==
    (kernel \in RoundKernels /\ noise_level < 0) => (pc = 1 /\ rec = <<>>)

CanStep ==
    LET cur == State(destab, stab, rec)
    IN  \E t \in Apply(cur, RoundProgram[pc]) :
            faults + B(RoundProgram[pc].op = "depolarize" /\ t # cur) <= MaxFaults

\* C20: the encoding runs exactly once, then exactly R rounds one after
\* another, each the storage noise of the configured noise level on all 7 data
\* qubits (no call is issued for a level that is not positive) followed by one
\* extraction of each of the six generators, then each data qubit is measured
\* exactly once and the run is finished; no round starts after readout, no
\* data qubit is measured before it, and the run reaches its end: every step
\* advances it by one operation, a step is possible until the last operation
\* is done, and none after.
C20_RoundSchedule ==
    /\ [](kernel \in RoundKernels => Scheduled)
    /\ [](kernel \in RoundKernels =>
            /\ pc <= Len(RoundProgram) + 1
            /\ ~RoundSampled => CanStep)
    /\ [][pc' = pc + 1 /\ ~RoundSampled]_vars

C20_Witness ==
    /\ kernel = "multi_round_qec"
    /\ noise_level > 0
    /\ num_rounds = 2
    /\ RoundSampled
    /\ \A q \in 0..6 : Tally.noise[q] = 2

\* C21: measure-only mode: the data qubits of a multi-round run get no Pauli
\* correction; what has been executed (operations on each data qubit, ancillas
\* allocated, bits recorded) is fixed by the position in the kernel whatever
\* the syndromes recorded so far, and a finished run has run all R rounds and
\* recorded all 6R syndrome bits and the 7 data bits.
C21_MeasureOnly ==
    kernel \in RoundKernels =>
        LET t == Tally
        IN  /\ CorrectionFree[<<kernel, num_rounds, noise_level>>]
            /\ Len(rec) = t.extracted[0] + t.extracted[1] + t.extracted[2]
                           + t.extracted[3] + t.extracted[4] + t.extracted[5]
                           + t.data[0] + t.data[1] + t.data[2] + t.data[3]
                           + t.data[4] + t.data[5] + t.data[6]
            /\ RoundSampled => /\ Len(rec) = 6 * num_rounds + 7
                               /\ \A g \in 0..5 : t.extracted[g] = num_rounds

\* a finished two-round run whose first round recorded a nonzero syndrome
C21_Witness ==
    /\ kernel = "multi_round_qec"
    /\ num_rounds = 2
    /\ RoundSampled
    /\ RoundSyndrome(0) # ZeroSyndrome
    /\ Len(rec) = 19

\* C22: when the decoder's result is ('Unknown', -1) or (None, None),
\* apply_correction issues no gate and the step that calls it leaves the state
\* of the data qubits as it was.
C22_NoCorrectionWhenUndecided ==
    [][(kernel = "apply_correction" /\ pc = 2 /\ decoded \in {Unknown, NoError}) =>
          /\ apply_correction(decoded[1], decoded[2]) = <<>>
          /\ pc' = 3
          /\ destab' = destab
          /\ stab' = stab
          /\ rec' = rec]_vars

\* apply_correction has been called with ('Unknown', -1) on data carrying an error
C22_Witness ==
    /\ kernel = "apply_correction"
    /\ pc = 3
    /\ decoded = Unknown
    /\ error # <<>>
    /\ stab = ErrorStates[error].stab

\* C23: for every single-qubit Pauli error, decode_syndrome of the error's
\* generator-derived syndrome names that error, apply_correction of the result
\* issues the same Pauli on the same qubit and nothing else, and the data are
\* left in the encoded state they had before the error.
C23_CorrectionRoundTrip ==
    (/\ kernel = "apply_correction"
     /\ pc = 3
     /\ error # <<>>
     /\ calls[1].syn = SyndromeOf(error[1], error[2])) =>
        /\ decoded = Err(error[1], error[2])
        /\ apply_correction(decoded[1], decoded[2]) = <<PauliOp(error[1], error[2])>>
        /\ destab = ErrorStates[<<>>].destab
        /\ stab = ErrorStates[<<>>].stab

\* a Y error on qubit 4 has been decoded from its syndrome and corrected
C23_Witness ==
    /\ kernel = "apply_correction"
    /\ pc = 3
    /\ error = <<"Y", 4>>
    /\ calls[1].syn = SyndromeOf("Y", 4)
    /\ stab = ErrorStates[<<>>].stab
    /\ stab # ErrorStates[error].stab

C25_PostSelectFilters ==
    /\ []((kernel = "test_post_selection" /\ pc >= 3) =>
            /\ selected_samples.rows = ZeroSyndromeRows(samples.rows, num_rounds)
            /\ Len(selected_samples.rows) <= Len(samples.rows)
            /\ (\A i \in 1..Len(samples.rows) :
                    \E j \in 1..(6 * num_rounds) : samples.rows[i][j] # 0)
                  => selected_samples.rows = <<>>)
    /\ [][kernel = "test_post_selection" => samples' = samples]_vars

\* of two shots the second is retained and the first is not
C25_Witness ==
    /\ kernel = "test_post_selection"
    /\ pc >= 3
    /\ Len(samples.rows) = 2
    /\ selected_samples.rows = <<samples.rows[2]>>
    /\ samples.rows[1] # samples.rows[2]

\* C26: every extraction round allocates six new ancillas, one per generator;
\* each is coupled to the data qubits of its own generator only and measured
\* exactly once; none is shared between generators or used again in a later
\* round, so a run of R rounds has allocated exactly 7 + 6R qubits.
C26_AncillaDiscipline ==
    kernel \in RoundKernels =>
        LET t == Tally
            d == RoundsDone(t)
        IN  /\ Disciplined[<<kernel, num_rounds, noise_level>>]
            /\ pc > 1 => /\ 7 + 6 * d <= Len(stab)
                         /\ Len(stab) <= 7 + 6 * (d + 1)
                         /\ Len(stab) <= 7 + 6 * num_rounds
                         /\ 7 + t.extracted[0] + t.extracted[1] + t.extracted[2]
                              + t.extracted[3] + t.extracted[4] + t.extracted[5]
                              <= Len(stab)
            /\ RoundSampled => Len(stab) = 7 + 6 * num_rounds

\* the second round of a run has allocated its fifth ancilla
C26_Witness ==
    /\ kernel = "multi_round_qec"
    /\ num_rounds = 2
    /\ Len(stab) = 7 + 6 + 5
    /\ Len(rec) = 6 + 4

\* C27: the six generators the extraction circuits measure commute with each
\* other: every X-type and every Z-type generator, of supports {0,1,2,3},
\* {0,1,4,5}, {0,2,4,6}, overlap on an even number of qubits.
C27_GeneratorsCommute ==
    /\ \A i \in 1..3 : \A j \in 1..3 :
          Cardinality(x_generators[i] \cap z_generators[j]) % 2 = 0
    /\ kernel \in ExtractionKernels =>
          /\ ExtractionCommutes[kernel]
          /\ \A i \in 0..5 : \A j \in 0..5 : Commute(Generator(i), Generator(j))

\* a shot of the segment 5.1 extraction has measured its six ancillas
C27_Witness ==
    /\ kernel = "qec_cycle_with_correction_single_z_error"
    /\ Len(rec) >= 6
    /\ Len(stab) = 13

\* C28: in a noiseless run of flagged_steane_encoding_with_measure the three
\* flag bits, the first three bits of the shot, are all 0.
C28_FlagsClear ==
    /\ (kernel \in FlaggedKernels /\ Len(rec) >= 3) => SubSeq(rec, 1, 3) = <<0, 0, 0>>
    /\ kernel \in FlaggedKernels => verdict # "flag_triggered"

\* C29: two errors of the same type (both X or both Z) on distinct data qubits
\* q1, q2 have the table syndrome of one error of that type on a third qubit
\* q3, and decode_syndrome answers (type, q3), never ('Unknown', -1).
C29_PairsMiscorrected ==
    /\ PairsDecodeToThird
    /\ \A i \in 1..Len(calls) :
          /\ \A d \in PairsOf[calls[i].syn] : ThirdQubit(calls[i].syn, calls[i].res, d)
          /\ PairsOf[calls[i].syn] # {} => calls[i].res # Unknown

\* the decoder was asked about the syndrome of X errors on qubits 0 and 1
C29_Witness ==
    \E i \in 1..Len(calls) :
        /\ <<"X", 0, 1>> \in PairsOf[calls[i].syn]
        /\ calls[i].res = Err("X", 6)

\* C30: simulate_correction_benefit reaches its final summary for every sampled
\* batch, also when no shot has an all-zero syndrome: every value the summary
\* uses has been assigned.
C30_SummaryReached ==
    kernel = "simulate_correction_benefit" =>
        /\ verdict # "UnboundLocalError"
        /\ pc = 7 => (verdict = "summary" /\ Len(fidelity) = 3)

====
